---------------------------- MODULE Spec2Model ----------------------------
(***************************************************************************)
(* A model of cc_transformer.py: the Transformer pipeline                  *)
(*   full_trans : _replace_subs -> _transform_structure -> write           *)
(*   plain_trans: _replace_subs -> _extract_fulltext -> word loop -> write *)
(* and the table loader read_csv_to_dict.  Three more specifications run   *)
(* parts of it step by step: SpecRepl is replace_str on a loaded table,    *)
(* SpecFlat is _replace_subs child by child, SpecEngine is full_trans on   *)
(* documents of two words.                                                 *)
(*                                                                         *)
(* Text is a sequence of one-character strings.  Stand-ins for the Arabic  *)
(* script: "a" and "o" are two of the tashkil marks, "k" is the non-final  *)
(* kaf (U+06A9), "K" the other kaf (U+0643), "B", "M", "T" are ordinary    *)
(* letters, "\t" is a whitespace character that replace_str keeps.         *)
(* The documents of Init are texts replace_str leaves unchanged, so the    *)
(* call of _iter_normalize_chrs that opens both modes changes nothing.     *)
(***************************************************************************)
EXTENDS Naturals, Integers, Sequences, FiniteSets, TLC

VARIABLES
    mode,         \* argument of transform: "full_trans" or "plain_trans"
    vowels_bool,  \* argument of plain_trans
    or_tree,      \* the <w> elements of the parsed transcription, never edited
    mod_tree,     \* the <w> elements of the tree that is edited in place
    base_df,      \* Base-Character Table: the rows of basecharacters.csv
    ag_ids,       \* Diacritic-Id Table: descriptor -> sign
    mod_root,     \* the flattened <w> elements built by _replace_subs
    pc,           \* position in the transform
    w,            \* index in mod_root of the word being scanned (0: none)
    at,           \* index in the word's text of the next character
    i, j, pos, reset, att_unclear, att_mod, max,  \* locals of the word loop
    c,            \* index in root of the element bound to local c (0: unbound)
    root,         \* the <c> elements appended to self.root
    pwords,       \* plain_trans: fulltext.split(' ')
    plaintext,    \* plain_trans: self.plaintext
    out_file,     \* the output file: <<>> while not written
    err,          \* the exception that ended the transform ("": none)
    csv_rows,     \* read_csv_to_dict: the rows of the file
    rd,           \* read_csv_to_dict: rows read so far
    repl_dict,    \* read_csv_to_dict: the dictionary being built
    elem_text,    \* replace_str: the element text it is called with
    txt,          \* replace_str: its local text
    ki,           \* replace_str: items of repl_dict the loop has been through
    fw,           \* _replace_subs: <w> elements of mod_tree it has been through
    ek,           \* _replace_subs: children of the current <w> gone through
    ntext         \* _replace_subs: its local new_text

inputs == <<mode, vowels_bool, or_tree, base_df, ag_ids>>
locals == <<w, at, i, j, pos, reset, att_unclear, att_mod, max, c>>
plain  == <<pwords, plaintext>>
csv    == <<csv_rows, rd, repl_dict>>
norm   == <<elem_text, txt, ki>>
flat   == <<fw, ek, ntext>>
vars   == <<mode, vowels_bool, or_tree, mod_tree, base_df, ag_ids, mod_root,
            pc, w, at, i, j, pos, reset, att_unclear, att_mod, max, c, root,
            pwords, plaintext, out_file, err, csv_rows, rd, repl_dict,
            elem_text, txt, ki, fw, ek, ntext>>

----------------------------------------------------------------------------
(* Class attributes, lines 23-28 *)

tashkil == {"a", "o"}
ctrls == {"[", "]", "{", "}", "%"}
specs == tashkil \cup ctrls

el_ctrls ==
    [unclear |-> <<"[", "]">>, hi |-> <<"{", "}">>, del |-> <<"{", "}">>]

pos_str == [p \in 0..2 |-> <<"initial", "medial", "final">>[p + 1]]

num_str == [n \in 1..3 |-> <<"one", "two", "three">>[n]]

kafs == {"k", "K"}

whitespace == {"\t"}

----------------------------------------------------------------------------
(* Bounds of the documents and tables Init draws *)

MaxLen == 4       \* characters of the text of a lone <w> element without children
MaxKids == 3      \* child elements of a <w> element
MaxPair == 2      \* characters of each word's text in a two-word document
MaxShort == 2     \* characters of the word checked against every table
MaxRows == 3      \* rows of a table file

----------------------------------------------------------------------------
(* Helpers on text *)

\* str.strip(): leading and trailing whitespace removed
RECURSIVE LStrip(_)
LStrip(s) ==
    IF s # <<>> /\ Head(s) \in whitespace THEN LStrip(Tail(s)) ELSE s

RECURSIVE RStrip(_)
RStrip(s) ==
    IF s # <<>> /\ s[Len(s)] \in whitespace
    THEN RStrip(SubSeq(s, 1, Len(s) - 1))
    ELSE s

Strip(s) == RStrip(LStrip(s))

\* strip_specs, lines 409-413: every occurrence of every special character removed
strip_specs(string, spec_char) ==
    SelectSeq(string, LAMBDA ch : ch \notin spec_char)

\* the length of the longest suffix of s made of special characters
RECURSIVE TrailingSpecs(_)
TrailingSpecs(s) ==
    IF s # <<>> /\ s[Len(s)] \in specs
    THEN 1 + TrailingSpecs(SubSeq(s, 1, Len(s) - 1))
    ELSE 0

----------------------------------------------------------------------------
(* _replace_subs, lines 201-252 *)

\* a variant of BrInsert: n starts at 0, so the "%" goes right in front of the
\* trailing run of special characters
BrInsert_BeforeRun(new_text) ==
    LET cut == Len(new_text) - TrailingSpecs(new_text)
    IN Strip(SubSeq(new_text, 1, cut)) \o <<"%">>
           \o Strip(SubSeq(new_text, cut + 1, Len(new_text)))

\* lines 230-238: a <br> child puts "%" in front of new_text[n:], where -n is
\* one more than the length of the trailing run of special characters
BrInsert(new_text) ==
    LET n == -1 - TrailingSpecs(new_text)
        cut == IF Len(new_text) + n > 0 THEN Len(new_text) + n ELSE 0
    IN Strip(SubSeq(new_text, 1, cut)) \o <<"%">>
           \o Strip(SubSeq(new_text, cut + 1, Len(new_text)))

\* lines 219-238: one child element's contribution
KidStep(new_text, elem) ==
    LET wrapped == elem.tag \in DOMAIN el_ctrls
        t1 == IF elem.tag \notin {"supplied", "br"}
              THEN new_text
                   \o (IF wrapped THEN <<el_ctrls[elem.tag][1]>> ELSE <<>>)
                   \o Strip(elem.text)
                   \o (IF wrapped THEN <<el_ctrls[elem.tag][2]>> ELSE <<>>)
              ELSE new_text
        t2 == IF elem.tag # "br" THEN t1 \o Strip(elem.tail) ELSE t1
    IN IF elem.tag = "br" THEN BrInsert(t2) ELSE t2

RECURSIVE KidsFold(_, _)
KidsFold(new_text, elem_list) ==
    IF elem_list = <<>> THEN new_text
    ELSE KidsFold(KidStep(new_text, Head(elem_list)), Tail(elem_list))

\* lines 241-242: the word-level wrap
WordWrap(new_text, type) ==
    IF type = "unclear"
    THEN <<el_ctrls["unclear"][1]>> \o new_text \o <<el_ctrls["unclear"][2]>>
    ELSE new_text

\* lines 210-244: the text of one <w> element after flattening
FlatText(word) ==
    Strip(WordWrap(KidsFold(Strip(word.text), word.kids), word.type))

\* lines 246-250: the new element carries the text and attribute n only
RECURSIVE FlatWords(_)
FlatWords(ws) ==
    IF ws = <<>> THEN <<>>
    ELSE LET t == FlatText(Head(ws))
         IN (IF t # <<>> THEN <<[text |-> t, n |-> Head(ws).n]>> ELSE <<>>)
                \o FlatWords(Tail(ws))

----------------------------------------------------------------------------
(* Table access, lines 35-38, 147-173 and 323-336 *)

Row(ch, p, id, ag, above, below) ==
    [Character |-> ch, pos |-> p, id |-> id, ag |-> ag,
     above |-> above, below |-> below]

\* line 36: the characters present in the base character table
basechrs == {base_df[x].Character : x \in DOMAIN base_df}

\* lines 164 and 326: the rows of a character, in table order
RowsOf(letter) == SelectSeq(base_df, LAMBDA r : r.Character = letter)

\* a variant of SelectRow: the first row of the character, whatever the position
SelectRow_FirstRow(letter, p) == RowsOf(letter)[1]

\* lines 165-171 and 327-333: one row, chosen by position when there are two
SelectRow(letter, p) ==
    LET row == RowsOf(letter)
    IN IF Len(row) > 1
       THEN IF p = 2
            THEN SelectSeq(row, LAMBDA r : r.pos = "finis")[1]
            ELSE SelectSeq(row, LAMBDA r : r.pos = "inmed")[1]
       ELSE row[1]

\* lines 355-356 and 359-360: the descriptor of a dot count
DiaText(n, side) ==
    <<num_str[n], IF n > 1 THEN "dots" ELSE "dot", side>>

\* lines 338 and 357: a reference is "#" and the id
Ref(id) == <<"#", id>>

----------------------------------------------------------------------------
(* _transform_structure, lines 254-374: the steps on one character *)

\* a variant of JAfterReset: reset never restarts j
JAfterReset_Never(jj, rs) == jj

\* lines 277-278: j restarts while reset is set, on every character
JAfterReset(jj, rs) == IF rs THEN 0 ELSE jj

\* a variant of CtrlUnclear: "]" leaves the flag set
CtrlUnclear_NeverCleared(letter, u) == IF letter = "[" THEN TRUE ELSE u

\* lines 280-295: a control character's effect on (att_unclear, att_mod, j)
CtrlUnclear(letter, u) ==
    IF letter = "[" THEN TRUE ELSE IF letter = "]" THEN FALSE ELSE u

CtrlMod(letter, m) ==
    IF letter = "{" THEN TRUE ELSE IF letter = "}" THEN FALSE ELSE m

\* a variant of CtrlJ: "%" leaves j alone
CtrlJ_Ignored(letter, jj, mx) == jj

CtrlJ(letter, jj, mx) == IF letter = "%" THEN mx ELSE jj

\* a variant of Position: the final test comes before the initial test
Position_FinalFirst(jj, ii, mx) ==
    IF jj = mx \/ ii = mx THEN 2
    ELSE IF jj = 0 THEN 0
    ELSE 1

\* a variant of Position: the final branch tests j alone
Position_NoIndexTest(jj, ii, mx) ==
    IF jj = 0 THEN 0
    ELSE IF jj = mx THEN 2
    ELSE 1

\* lines 298-308: the position of a base letter
Position(jj, ii, mx) ==
    IF jj = 0 THEN 0
    ELSE IF jj = mx \/ ii = mx THEN 2
    ELSE 1

\* lines 300, 304, 308: reset is set exactly by the final branch
ResetOf(p) == p = 2

\* a variant of NormalizeKaf: the letter is looked up as it stands in the word
NormalizeKaf_Never(letter, p) == letter

\* a variant of NormalizeKaf: kaf is normalized at the end of a word too
NormalizeKaf_Always(letter, p) == IF letter \in kafs THEN "k" ELSE letter

\* lines 319-321: kaf is normalized except at the end of a word
NormalizeKaf(letter, p) ==
    IF letter \in kafs /\ p # 2 THEN "k" ELSE letter

\* line 342: the word examined is the element of mod_root, which carries the
\* attribute n only
WType(word) == IF "type" \in DOMAIN word THEN word.type ELSE ""

Certain(u, word) == u \/ WType(word) = "unclear"

\* a variant of DiaOf: the above descriptor is kept when both count
DiaOf_AboveWins(row) ==
    IF row.above # 0 THEN DiaText(row.above, "above")
    ELSE DiaText(row.below, "below")

\* lines 354-361: the descriptor left in dia_text, the below one when both count
DiaOf(row) ==
    IF row.below # 0 THEN DiaText(row.below, "below")
    ELSE DiaText(row.above, "above")

\* lines 350-364: the diacritic <g> elements of a cluster
HasDia(row) == row.above # 0 \/ row.below # 0

DiaKnown(row) == DiaOf(row) \in DOMAIN ag_ids

DiaElems(row) ==
    IF HasDia(row)
    THEN <<[type |-> "diacritic", ref |-> Ref(DiaOf(row)),
            text |-> ag_ids[DiaOf(row)]]>>
    ELSE <<>>

\* lines 310-343: the archigrapheme <g> element
ArchElem(row, p, cert) ==
    [type |-> "archigrapheme", rend |-> pos_str[p], ref |-> Ref(row.id),
     text |-> row.ag, cert |-> IF cert THEN "medium" ELSE ""]

\* a <c> element: its <g> children, and where its letter stands in mod_root
Cluster(row, p, cert, wi, ai) ==
    [g |-> <<ArchElem(row, p, cert)>> \o DiaElems(row), word |-> wi, at |-> ai]

\* a variant of MaxOf: the number of base letters, as plain_trans counts
MaxOf_Count(text) == Len(strip_specs(text, specs))

\* lines 271-272: max, the index of the last base letter counted from 0
MaxOf(text) == Len(strip_specs(text, specs)) - 1

\* a variant of RootAppend: the append sits inside the diacritic branch
RootAppend_OnlyDotted(r, cl) == IF Len(cl.g) > 1 THEN Append(r, cl) ELSE r

\* line 366: the element is appended whatever graphemes it holds
RootAppend(r, cl) == Append(r, cl)

VowelElem(letter) == [type |-> "vowel", text |-> letter]

CurText == IF w = 0 THEN <<>> ELSE mod_root[w].text

\* the loop over the characters of the current word has ended (or none began)
WordOver == at > Len(CurText)

\* the character the loop is about to scan
Letter == CurText[at]

----------------------------------------------------------------------------
(* plain_trans, lines 75-108, with _extract_fulltext and _get_basechr *)

\* lines 134-145: a space goes between two words whose n differ
RECURSIVE FullTextFrom(_, _)
FullTextFrom(ws, old) ==
    IF ws = <<>> THEN <<>>
    ELSE (IF Head(ws).n # old THEN <<" ">> ELSE <<>>)
             \o Head(ws).text \o FullTextFrom(Tail(ws), Head(ws).n)

extract_fulltext(ws) ==
    IF ws = <<>> THEN <<>>
    ELSE Head(ws).text \o FullTextFrom(Tail(ws), Head(ws).n)

\* str.split(' '): the pieces between the spaces, empty pieces kept
RECURSIVE SplitFrom(_, _)
SplitFrom(s, piece) ==
    IF s = <<>> THEN <<piece>>
    ELSE IF Head(s) = " " THEN <<piece>> \o SplitFrom(Tail(s), <<>>)
    ELSE SplitFrom(Tail(s), Append(piece, Head(s)))

Split(s) == SplitFrom(s, <<>>)

\* lines 98-100: the position handed to _get_basechr, pos staying 2 once set
PlainPos(p, ii, mx) == IF ii = mx THEN 2 ELSE p

\* a variant of PlainScan: the flag is not consulted, every mark is written
RECURSIVE PlainScan_VowelsAlways(_, _, _, _, _, _)
PlainScan_VowelsAlways(word, k, ii, p, mx, acc) ==
    IF k > Len(word) THEN [ok |-> TRUE, text |-> acc]
    ELSE LET chr == word[k]
         IN IF chr \in specs
            THEN IF chr \in ctrls
                 THEN PlainScan_VowelsAlways(word, k + 1, ii, p, mx, acc)
                 ELSE PlainScan_VowelsAlways(word, k + 1, ii, p, mx,
                                             Append(acc, chr))
            ELSE LET i1 == ii + 1
                     p1 == PlainPos(p, i1, mx)
                 IN IF chr \notin basechrs
                    THEN [ok |-> FALSE, text |-> acc]
                    ELSE PlainScan_VowelsAlways(word, k + 1, i1, p1, mx,
                             Append(acc, SelectRow(chr, p1).ag))

\* lines 90-102: the scan of one word from its character k on; the result is
\* [ok, text]: ok is FALSE when _get_basechr raises (line 162)
RECURSIVE PlainScan(_, _, _, _, _, _)
PlainScan(word, k, ii, p, mx, acc) ==
    IF k > Len(word) THEN [ok |-> TRUE, text |-> acc]
    ELSE LET chr == word[k]
         IN IF chr \in specs
            THEN IF chr \in ctrls \/ vowels_bool = FALSE
                 THEN PlainScan(word, k + 1, ii, p, mx, acc)
                 ELSE PlainScan(word, k + 1, ii, p, mx, Append(acc, chr))
            ELSE LET i1 == ii + 1
                     p1 == PlainPos(p, i1, mx)
                 IN IF chr \notin basechrs
                    THEN [ok |-> FALSE, text |-> acc]
                    ELSE PlainScan(word, k + 1, i1, p1, mx,
                                   Append(acc, SelectRow(chr, p1).ag))

PlainWordText(word) ==
    PlainScan(word, 1, 0, 0, Len(strip_specs(word, specs)), <<>>)

----------------------------------------------------------------------------
(* The transform as a state machine *)

\* lines 69/182-183 and 82-83: _replace_subs builds mod_root
ReplaceSubs ==
    /\ pc = "start"
    /\ mod_root' = FlatWords(mod_tree)
    /\ mod_tree' = mod_root'
    /\ pc' = IF mode = "full_trans" THEN "words" ELSE "extract"
    /\ UNCHANGED <<inputs, norm, flat, locals, root, plain, out_file, err, csv>>

\* a variant of StartWord: the flags and j are set once, before the loop over
\* the words
StartWord_KeepsFlags ==
    /\ pc = "words" /\ WordOver /\ w < Len(mod_root)
    /\ w' = w + 1
    /\ at' = 1
    /\ i' = 0 /\ pos' = 0
    /\ max' = MaxOf(mod_root[w + 1].text)
    /\ UNCHANGED <<inputs, norm, flat, mod_tree, mod_root, pc, j, reset, att_unclear,
                   att_mod, c, root, plain, out_file, err, csv>>

\* lines 266-272: the next <w> element; c keeps whatever it was bound to
StartWord ==
    /\ pc = "words" /\ WordOver /\ w < Len(mod_root)
    /\ w' = w + 1
    /\ at' = 1
    /\ i' = 0 /\ j' = 0 /\ pos' = 0
    /\ reset' = FALSE /\ att_unclear' = FALSE /\ att_mod' = FALSE
    /\ max' = MaxOf(mod_root[w + 1].text)
    /\ UNCHANGED <<inputs, norm, flat, mod_tree, mod_root, pc, c, root, plain, out_file,
                   err, csv>>

\* lines 280-295: a control character
ScanCtrl ==
    /\ pc = "words"
    /\ ~WordOver
    /\ Letter \in ctrls
    /\ LET letter == Letter
       IN /\ att_unclear' = CtrlUnclear(letter, att_unclear)
          /\ att_mod' = CtrlMod(letter, att_mod)
          /\ j' = CtrlJ(letter, JAfterReset(j, reset), max)
    /\ at' = at + 1
    /\ UNCHANGED <<inputs, norm, flat, mod_tree, mod_root, pc, w, i, pos, reset, max, c,
                   root, plain, out_file, err, csv>>

\* lines 297-369: a base letter; the lookups raise at lines 324 and 363
ScanLetter ==
    /\ pc = "words"
    /\ ~WordOver
    /\ Letter \notin specs
    /\ LET j0 == JAfterReset(j, reset)
           p == Position(j0, i, max)
           letter == NormalizeKaf(Letter, p)
       IN /\ pos' = p
          /\ reset' = ResetOf(p)
          /\ IF letter \notin basechrs
             THEN /\ pc' = "error" /\ err' = "Exception"
                  /\ j' = j0
                  /\ UNCHANGED <<at, i, c, root>>
             ELSE LET row == SelectRow(letter, p)
                  IN IF HasDia(row) /\ ~DiaKnown(row)
                     THEN /\ pc' = "error" /\ err' = "KeyError"
                          /\ j' = j0
                          /\ UNCHANGED <<at, i, c, root>>
                     ELSE /\ root' = RootAppend(root,
                                 Cluster(row, p,
                                         Certain(att_unclear, mod_root[w]),
                                         w, at))
                          /\ c' = Len(root) + 1
                          /\ i' = i + 1
                          /\ j' = j0 + 1
                          /\ at' = at + 1
                          /\ UNCHANGED <<pc, err>>
    /\ UNCHANGED <<inputs, norm, flat, mod_tree, mod_root, w, att_unclear, att_mod, max,
                   plain, out_file, csv>>

\* lines 371-374: a tashkil mark goes to the element c is bound to
ScanTashkil ==
    /\ pc = "words"
    /\ ~WordOver
    /\ Letter \in tashkil
    /\ j' = JAfterReset(j, reset)
    /\ IF c = 0
       THEN /\ pc' = "error" /\ err' = "UnboundLocalError"
            /\ UNCHANGED <<at, root>>
       ELSE /\ root' = IF c \in DOMAIN root
                       THEN [root EXCEPT
                                ![c].g = Append(@, VowelElem(Letter))]
                       ELSE root
            /\ at' = at + 1
            /\ UNCHANGED <<pc, err>>
    /\ UNCHANGED <<inputs, norm, flat, mod_tree, mod_root, w, i, pos, reset, att_unclear,
                   att_mod, max, c, plain, out_file, csv>>

\* lines 70-71: after the last word, _complete_xml and the write
WriteXml ==
    /\ pc = "words" /\ WordOver /\ w = Len(mod_root)
    /\ out_file' = <<"xml", root>>
    /\ pc' = "done"
    /\ UNCHANGED <<inputs, norm, flat, mod_tree, mod_root, locals, root, plain, err, csv>>

\* lines 84-85: the full text and its words
ExtractFulltext ==
    /\ pc = "extract"
    /\ pwords' = Split(extract_fulltext(mod_root))
    /\ plaintext' = <<>>
    /\ w' = 0
    /\ pc' = "plain"
    /\ UNCHANGED <<inputs, norm, flat, mod_tree, mod_root, at, i, j, pos, reset,
                   att_unclear, att_mod, max, c, root, out_file, err, csv>>

\* lines 86-103: one word of the full text
PlainWord ==
    /\ pc = "plain" /\ w < Len(pwords)
    /\ LET r == PlainWordText(pwords[w + 1])
       IN IF r.ok
          THEN /\ plaintext' = plaintext \o r.text \o <<" ">>
               /\ w' = w + 1
               /\ UNCHANGED <<pc, err>>
          ELSE /\ plaintext' = plaintext \o r.text
               /\ pc' = "error" /\ err' = "Exception"
               /\ UNCHANGED w
    /\ UNCHANGED <<inputs, norm, flat, mod_tree, mod_root, at, i, j, pos, reset,
                   att_unclear, att_mod, max, c, root, pwords, out_file, csv>>

\* lines 105-106: the write
WriteTxt ==
    /\ pc = "plain" /\ w = Len(pwords)
    /\ out_file' = <<"txt", plaintext>>
    /\ pc' = "done"
    /\ UNCHANGED <<inputs, norm, flat, mod_tree, mod_root, locals, root, plain, err, csv>>

Next ==
    \/ ReplaceSubs
    \/ StartWord
    \/ ScanCtrl
    \/ ScanLetter
    \/ ScanTashkil
    \/ WriteXml
    \/ ExtractFulltext
    \/ PlainWord
    \/ WriteTxt

----------------------------------------------------------------------------
(* The documents and tables of the initial states *)

Texts(chars, n) == UNION {[1..m -> chars] : m \in 0..n}

SeqsUpTo(S, n) == UNION {[1..m -> S] : m \in 0..n}

Word(text, kids, type, n) ==
    [text |-> text, kids |-> kids, type |-> type, n |-> n]

Kid(tag, text, tail) == [tag |-> tag, text |-> text, tail |-> tail]

Tags == {"unclear", "hi", "del", "supplied", "br", "add"}

WordTypes == {"", "unclear"}

\* the modes of transform, with the vowels_bool plain_trans may be given
ModeChoices ==
    {<<"full_trans", TRUE>>, <<"plain_trans", TRUE>>, <<"plain_trans", FALSE>>}

\* a base character table: B with one dot below, M with two contexts, the two
\* kafs, T with the dot counts td; only the characters of `present` have rows
BasePool(td) ==
    <<Row("B", "", "b1", "Bag", 0, 1),
      Row("M", "inmed", "m1", "Mmed", 0, 0),
      Row("M", "finis", "m2", "Mfin", 0, 0),
      Row("k", "", "k1", "kag", 0, 0),
      Row("K", "", "k2", "Kag", 0, 0),
      Row("T", "", "t1", "Bag", td[1], td[2])>>

TableLetters == {"B", "M", "k", "K", "T"}

BaseTable(present, td) ==
    SelectSeq(BasePool(td), LAMBDA r : r.Character \in present)

BaseFull == BaseTable(TableLetters, <<2, 0>>)

BaseTables ==
    {BaseTable(TableLetters \ drop, td) :
        drop \in {{}} \cup {{x} : x \in TableLetters},
        td \in {<<2, 0>>, <<2, 1>>, <<0, 3>>}}

\* a diacritic table: one sign for each descriptor it has
Descriptors ==
    {DiaText(n, side) : n \in 1..3, side \in {"above", "below"}}

AgTable(have) == [d \in have |-> <<"sign", d[1], d[3]>>]

AgFull == AgTable(Descriptors)

AgTables ==
    {AgFull, AgTable(Descriptors \ {DiaText(1, "below")}),
     AgTable(Descriptors \ {DiaText(2, "above")})}

TextChars == {"B", "M", "K", "a", "[", "]"}

KidSet ==
    {Kid(tag, <<"B">>, <<>>) : tag \in Tags}
        \cup {Kid("add", <<"a">>, <<>>), Kid("supplied", <<"B">>, <<"B">>),
              Kid("br", <<>>, <<"B">>)}

\* the own text of a word with children
KidTexts == {<<>>, <<"B">>, <<"a">>}

PairChars == {"B", "a", "[", "X"}

ShortChars == {"B", "M", "k", "K", "T", "a", "\t"}

\* one word without children, the tables complete
TextDocs ==
    {<<Word(t, <<>>, ty, 1)>> : t \in Texts(TextChars, MaxLen), ty \in WordTypes}

\* one word with children
KidDocs ==
    {<<Word(t, ks, ty, 1)>> :
        t \in KidTexts, ks \in SeqsUpTo(KidSet, MaxKids),
        ty \in WordTypes}

\* two words without children, on the same line number or not
PairDocs ==
    {<<Word(t1, <<>>, "", 1), Word(t2, <<>>, "", n2)>> :
        t1 \in Texts(PairChars, MaxPair), t2 \in Texts(PairChars, MaxPair),
        n2 \in {1, 2}}

\* one short word, for the tables that lack a character or a descriptor
ShortDocs ==
    {<<Word(t, <<>>, "", 1)>> : t \in Texts(ShortChars, MaxShort)}

Idle ==
    /\ mod_root = <<>>
    /\ w = 0 /\ at = 1 /\ i = 0 /\ j = 0 /\ pos = 0
    /\ reset = FALSE /\ att_unclear = FALSE /\ att_mod = FALSE
    /\ max = 0 /\ c = 0
    /\ root = <<>> /\ pwords = <<>> /\ plaintext = <<>>
    /\ out_file = <<>> /\ err = ""
    /\ elem_text = <<>> /\ txt = <<>> /\ ki = 0
    /\ fw = 0 /\ ek = 0 /\ ntext = <<>>

NoCsv == csv_rows = <<>> /\ rd = 0 /\ repl_dict = <<>>

Init ==
    /\ \/ /\ or_tree \in TextDocs \cup KidDocs \cup PairDocs
          /\ base_df = BaseFull
          /\ ag_ids = AgFull
       \/ /\ or_tree \in ShortDocs
          /\ base_df \in BaseTables
          /\ ag_ids \in AgTables
    /\ \E m \in ModeChoices : mode = m[1] /\ vowels_bool = m[2]
    /\ mod_tree = or_tree
    /\ pc = "start"
    /\ Idle
    /\ NoCsv

Spec == Init /\ [][Next]_vars

----------------------------------------------------------------------------
(* full_trans on documents of two words, the first one with children *)

MaxFirst == 3     \* characters of the first word's own text
MaxBr == 2        \* child elements of the first word
MaxSecond == 2    \* characters of the second word's text

FirstChars == {"B", "a", "[", "{"}

FirstKids == {Kid("br", <<>>, <<>>), Kid("add", <<"B">>, <<"B">>)}

SecondChars == {"B", "a"}

WordDocs ==
    {<<Word(t1, ks, "", 1), Word(t2, <<>>, "", 2)>> :
        t1 \in Texts(FirstChars, MaxFirst), ks \in SeqsUpTo(FirstKids, MaxBr),
        t2 \in Texts(SecondChars, MaxSecond)}

InitEngine ==
    /\ or_tree \in WordDocs
    /\ base_df = BaseFull
    /\ ag_ids = AgFull
    /\ mode = "full_trans" /\ vowels_bool = TRUE
    /\ mod_tree = or_tree
    /\ pc = "start"
    /\ Idle
    /\ NoCsv

NextEngine ==
    \/ ReplaceSubs
    \/ StartWord
    \/ ScanCtrl
    \/ ScanLetter
    \/ ScanTashkil
    \/ WriteXml

SpecEngine == InitEngine /\ [][NextEngine]_vars

----------------------------------------------------------------------------
(* read_csv_to_dict, lines 377-388 *)

\* dict.get: <<value>> for a key of the dictionary, None (here <<>>) otherwise
Get(d, a) == IF a \in DOMAIN d THEN <<d[a]>> ELSE <<>>

\* Python's truth of what get returns: None and the empty string are false
Truthy(v) == v # <<>> /\ v[1] # ""

\* lines 385-386: the row is stored unless the key already maps to something true
Store(d, a, b) ==
    IF ~Truthy(Get(d, a))
    THEN [x \in DOMAIN d \cup {a} |-> IF x = a THEN b ELSE d[x]]
    ELSE d

\* lines 382-386: one row of the file
ReadRow ==
    /\ pc = "csv"
    /\ rd < Len(csv_rows)
    /\ repl_dict' = Store(repl_dict, csv_rows[rd + 1][1], csv_rows[rd + 1][2])
    /\ rd' = rd + 1
    /\ UNCHANGED <<inputs, norm, flat, mod_tree, mod_root, pc, locals, root, plain,
                   out_file, err, csv_rows>>

\* line 388
ReturnDict ==
    /\ pc = "csv"
    /\ rd = Len(csv_rows)
    /\ pc' = "returned"
    /\ UNCHANGED <<inputs, norm, flat, mod_tree, mod_root, locals, root, plain, out_file,
                   err, csv>>

NextCsv == ReadRow \/ ReturnDict

Sources == {"x", "y"}

Targets == {"", "p", "q"}

InitCsv ==
    /\ csv_rows \in SeqsUpTo(Sources \X Targets, MaxRows)
    /\ rd = 0
    /\ repl_dict = <<>>
    /\ pc = "csv"
    /\ mode = "" /\ vowels_bool = TRUE /\ or_tree = <<>> /\ mod_tree = <<>>
    /\ base_df = <<>> /\ ag_ids = <<>>
    /\ Idle

SpecCsv == InitCsv /\ [][NextCsv]_vars

----------------------------------------------------------------------------
(* _replace_subs, lines 201-252, child by child *)

MaxOwn == 3       \* characters of the own text of the <w> element
MaxFlatKids == 2  \* child elements of the <w> element

\* lines 209-216: the next <w> element of mod_tree
FlatBegin ==
    /\ pc = "w"
    /\ fw < Len(mod_tree)
    /\ ntext' = Strip(mod_tree[fw + 1].text)
    /\ ek' = 0
    /\ pc' = "kids"
    /\ UNCHANGED <<inputs, norm, mod_tree, mod_root, locals, root, plain,
                   out_file, err, csv, fw>>

\* lines 219-228: a child that is not a <br>
FlatKid ==
    /\ pc = "kids"
    /\ ek < Len(mod_tree[fw + 1].kids)
    /\ mod_tree[fw + 1].kids[ek + 1].tag # "br"
    /\ ntext' = KidStep(ntext, mod_tree[fw + 1].kids[ek + 1])
    /\ ek' = ek + 1
    /\ UNCHANGED <<inputs, norm, mod_tree, mod_root, pc, locals, root, plain,
                   out_file, err, csv, fw>>

\* lines 230-239: a <br> child
FlatBr ==
    /\ pc = "kids"
    /\ ek < Len(mod_tree[fw + 1].kids)
    /\ mod_tree[fw + 1].kids[ek + 1].tag = "br"
    /\ ntext' = KidStep(ntext, mod_tree[fw + 1].kids[ek + 1])
    /\ ek' = ek + 1
    /\ UNCHANGED <<inputs, norm, mod_tree, mod_root, pc, locals, root, plain,
                   out_file, err, csv, fw>>

\* lines 241-250: the word-level wrap, and the new element when text is left
FlatEnd ==
    /\ pc = "kids"
    /\ ek = Len(mod_tree[fw + 1].kids)
    /\ LET t == Strip(WordWrap(ntext, mod_tree[fw + 1].type))
       IN mod_root' =
              IF t # <<>>
              THEN Append(mod_root, [text |-> t, n |-> mod_tree[fw + 1].n])
              ELSE mod_root
    /\ fw' = fw + 1
    /\ pc' = "w"
    /\ UNCHANGED <<inputs, norm, mod_tree, locals, root, plain, out_file, err,
                   csv, ek, ntext>>

\* line 252
FlatReturn ==
    /\ pc = "w"
    /\ fw = Len(mod_tree)
    /\ mod_tree' = mod_root
    /\ pc' = "flattened"
    /\ UNCHANGED <<inputs, norm, flat, mod_root, locals, root, plain, out_file,
                   err, csv>>

NextFlat == FlatBegin \/ FlatKid \/ FlatBr \/ FlatEnd \/ FlatReturn

FlatChars == {"B", "a", "[", "\t"}

FlatKids ==
    {Kid("br", <<>>, <<>>), Kid("br", <<>>, <<"B">>),
     Kid("add", <<"B", "\t">>, <<"a">>), Kid("unclear", <<"a">>, <<>>),
     Kid("supplied", <<"B">>, <<"\t", "B">>)}

FlatDocs ==
    {<<Word(t, ks, ty, 1)>> :
        t \in Texts(FlatChars, MaxOwn), ks \in SeqsUpTo(FlatKids, MaxFlatKids),
        ty \in WordTypes}

InitFlat ==
    /\ or_tree \in FlatDocs
    /\ base_df = BaseFull
    /\ ag_ids = AgFull
    /\ mode = "full_trans" /\ vowels_bool = TRUE
    /\ mod_tree = or_tree
    /\ pc = "w"
    /\ Idle
    /\ NoCsv

SpecFlat == InitFlat /\ [][NextFlat]_vars

----------------------------------------------------------------------------
(* replace_str, lines 390-407, on the dictionary __init__ loaded (line 38) *)

MaxSubst == 3     \* characters of a text given to the substitution loop
MaxTable == 2     \* rows of the replacement table file
MaxClean == 2     \* characters of a text with characters the cleaning removes

\* the characters of a literal of the table file
Chars(lit) ==
    CASE lit = "" -> <<>>
      [] lit = "xy" -> <<"x", "y">>
      [] lit = "xp" -> <<"x", "p">>
      [] OTHER -> <<lit>>

\* lines 380-388 run on all the rows of a file
RECURSIVE LoadFrom(_, _)
LoadFrom(d, rows) ==
    IF rows = <<>> THEN d
    ELSE LoadFrom(Store(d, Head(rows)[1], Head(rows)[2]), Tail(rows))

\* line 393: the keys of the dictionary in the order they were first stored
RECURSIVE KeysFrom(_, _)
KeysFrom(rows, seen) ==
    IF rows = <<>> THEN <<>>
    ELSE (IF Head(rows)[1] \in seen THEN <<>> ELSE <<Head(rows)[1]>>)
             \o KeysFrom(Tail(rows), seen \cup {Head(rows)[1]})

Keys == KeysFrom(csv_rows, {})

\* line 391: NFKD; "Q" stands for a precomposed letter, which decomposes into
\* the letter "B" and the mark "a"
Nfkd(s) ==
    IF s = <<>> THEN <<>>
    ELSE LET part(ch) == IF ch = "Q" THEN <<"B", "a">> ELSE <<ch>>
             F[k \in 0..Len(s)] ==
                 IF k = 0 THEN <<>> ELSE F[k - 1] \o part(s[k])
         IN F[Len(s)]

\* a variant of Replace: only the first occurrence is replaced
RECURSIVE Replace_FirstOnly(_, _, _)
Replace_FirstOnly(s, old, new) ==
    IF old = <<>> THEN new \o s
    ELSE IF Len(s) < Len(old) THEN s
    ELSE IF SubSeq(s, 1, Len(old)) = old
         THEN new \o SubSeq(s, Len(old) + 1, Len(s))
         ELSE <<Head(s)>> \o Replace_FirstOnly(Tail(s), old, new)

\* line 394, str.replace: every occurrence, found from the left without
\* overlap; an empty old goes before every character and at the end
RECURSIVE Replace(_, _, _)
Replace(s, old, new) ==
    IF old = <<>>
    THEN new \o (IF s = <<>> THEN <<>>
                 ELSE <<Head(s)>> \o Replace(Tail(s), old, new))
    ELSE IF Len(s) < Len(old) THEN s
    ELSE IF SubSeq(s, 1, Len(old)) = old
         THEN new \o Replace(SubSeq(s, Len(old) + 1, Len(s)), old, new)
         ELSE <<Head(s)>> \o Replace(Tail(s), old, new)

\* lines 393-394: the loop from item k + 1 of the dictionary on
RECURSIVE SubstFrom(_, _)
SubstFrom(s, k) ==
    IF k >= Len(Keys) THEN s
    ELSE SubstFrom(Replace(s, Chars(Keys[k + 1]),
                           Chars(repl_dict[Keys[k + 1]])), k + 1)

\* "1" stands for the digits of line 398, "V" for the verse sign the text
\* keeps, "W" for the other sign of line 397; " " and "%" have one of the
\* categories line 404 drops
digits == {"1"}

vseps == {"V", "W"} \cup digits

dropped == {" ", "%", "W"}

\* line 400: every run of verse separators becomes one verse sign
RECURSIVE FoldVsep(_)
FoldVsep(s) ==
    IF s = <<>> THEN <<>>
    ELSE IF Head(s) \in vseps
         THEN IF Len(s) > 1 /\ s[2] \in vseps
              THEN FoldVsep(Tail(s))
              ELSE <<"V">> \o FoldVsep(Tail(s))
         ELSE <<Head(s)>> \o FoldVsep(Tail(s))

\* lines 395-407: newlines and digits removed, separators folded, the
\* characters of the dropped categories removed
Clean(s) ==
    LET t1 == SelectSeq(s, LAMBDA ch : ch # "\n")
        t2 == SelectSeq(t1, LAMBDA ch : ch \notin digits)
        t3 == FoldVsep(t2)
    IN SelectSeq(t3, LAMBDA ch : ch \notin dropped \/ ch = "V")

\* line 391
ReplNormalize ==
    /\ pc = "replace_str"
    /\ txt' = Nfkd(elem_text)
    /\ ki' = 0
    /\ pc' = "items"
    /\ UNCHANGED <<inputs, flat, mod_tree, mod_root, locals, root, plain, out_file,
                   err, csv, elem_text>>

\* lines 393-394: one item of the dictionary
ReplItem ==
    /\ pc = "items"
    /\ ki < Len(Keys)
    /\ txt' = Replace(txt, Chars(Keys[ki + 1]),
                       Chars(repl_dict[Keys[ki + 1]]))
    /\ ki' = ki + 1
    /\ UNCHANGED <<inputs, flat, mod_tree, mod_root, pc, locals, root, plain,
                   out_file, err, csv, elem_text>>

\* lines 395-407
ReplClean ==
    /\ pc = "items"
    /\ ki = Len(Keys)
    /\ txt' = Clean(txt)
    /\ pc' = "cleaned"
    /\ UNCHANGED <<inputs, flat, mod_tree, mod_root, locals, root, plain, out_file,
                   err, csv, elem_text, ki>>

NextRepl == ReplNormalize \/ ReplItem \/ ReplClean

SubstChars == {"x", "y", "p"}

CleanChars == {"B", "Q", " ", "\n", "1", "V", "W", "%"}

ReplSources == {"", "x", "y", "xy"}

ReplTargets == {"", "p", "xp"}

ReplRows == ReplSources \X ReplTargets

InitRepl ==
    /\ \/ /\ elem_text \in Texts(SubstChars, MaxSubst)
          /\ csv_rows \in SeqsUpTo(ReplRows, MaxTable)
       \/ /\ elem_text \in Texts(CleanChars, MaxClean)
          /\ csv_rows \in {<<>>} \cup {<<r>> : r \in ReplRows}
    /\ rd = Len(csv_rows)
    /\ repl_dict = LoadFrom(<<>>, csv_rows)
    /\ txt = elem_text
    /\ ki = 0
    /\ pc = "replace_str"
    /\ mode = "" /\ vowels_bool = TRUE /\ or_tree = <<>> /\ mod_tree = <<>>
    /\ base_df = <<>> /\ ag_ids = <<>>
    /\ mod_root = <<>>
    /\ w = 0 /\ at = 1 /\ i = 0 /\ j = 0 /\ pos = 0
    /\ reset = FALSE /\ att_unclear = FALSE /\ att_mod = FALSE
    /\ max = 0 /\ c = 0
    /\ root = <<>> /\ pwords = <<>> /\ plaintext = <<>>
    /\ out_file = <<>> /\ err = ""
    /\ fw = 0 /\ ek = 0 /\ ntext = <<>>

SpecRepl == InitRepl /\ [][NextRepl]_vars

----------------------------------------------------------------------------
(* Vocabulary of the properties: the flattened text read place by place *)

\* the places of the base letters of a text
BasePlaces(t) == {p \in 1..Len(t) : t[p] \notin tashkil /\ t[p] \notin ctrls}

NBase(t) == Cardinality(BasePlaces(t))

\* the number of base letters at or before place p
Rank(t, p) == Cardinality({q \in BasePlaces(t) : q <= p})

\* the place of the last base letter before place p, 0 when there is none
PrevBase(t, p) ==
    LET S == {q \in BasePlaces(t) : q < p}
    IN IF S = {} THEN 0 ELSE CHOOSE q \in S : \A r \in S : r <= q

\* a "%" stands between the base letter at place p and the one before it
PercentBefore(t, p) == \E q \in (PrevBase(t, p) + 1)..(p - 1) : t[q] = "%"

\* the last bracket before place p is an opening one
InsideBrackets(t, p) ==
    LET S == {q \in 1..(p - 1) : t[q] \in {"[", "]"}}
    IN S # {} /\ t[CHOOSE q \in S : \A r \in S : r <= q] = "["

TextOf(x) == mod_root[root[x].word].text

Rend(x) == root[x].g[1].rend

Cert(x) == root[x].g[1].cert

\* the element emitted for the letter at place p of word wi
ClusterAt(wi, p) ==
    CHOOSE x \in DOMAIN root : root[x].word = wi /\ root[x].at = p

\* the number of archigrapheme graphemes emitted for word wi
ArchCount(wi) ==
    Cardinality(UNION {
        {<<x, k>> : k \in {k \in DOMAIN root[x].g :
                               root[x].g[k].type = "archigrapheme"}} :
        x \in {x \in DOMAIN root : root[x].word = wi}})

\* the engine is at work on, or has ended on, the words of mod_root
InEngine == mode = "full_trans" /\ pc \in {"words", "done", "error"}

\* the scan of word wi ran to the end of its text
Scanned(wi) == wi < w \/ (wi = w /\ at > Len(mod_root[wi].text))

\* the element of or_tree that word wi of mod_root was flattened from
SrcOf(wi) ==
    CHOOSE k \in 1..Len(or_tree) :
        /\ FlatText(or_tree[k]) # <<>>
        /\ Cardinality({q \in 1..k : FlatText(or_tree[q]) # <<>>}) = wi

\* no element stands for a control character, and i counts the base letters
\* scanned so far in the current word
CtrlTakesNoSlot ==
    /\ \A x \in DOMAIN root : TextOf(x)[root[x].at] \notin ctrls
    /\ (InEngine /\ w > 0) =>
           i = Cardinality({q \in BasePlaces(CurText) : q < at})

----------------------------------------------------------------------------
(* C1 *)

\* C1, as claimed: in every word, the base letter that follows a "%" is
\* classified final, and the "%" takes no letter slot and no grapheme.
C1_PercentAlwaysFinal ==
    /\ \A x \in DOMAIN root :
           PercentBefore(TextOf(x), root[x].at) => Rend(x) = "final"
    /\ CtrlTakesNoSlot

\* C1, amended: in a word with at least two base letters, the base letter
\* that follows a "%" is classified final when no base letter stands before
\* the "%" or the one before it was not classified final; the sole letter of
\* a word, and the letter after a final one, is initial after a "%"; the "%"
\* takes no letter slot and no grapheme.
C1_PercentFinalUnlessReset ==
    /\ \A x \in DOMAIN root :
           LET t == TextOf(x)
               p == root[x].at
               b == PrevBase(t, p)
           IN PercentBefore(t, p) =>
                  Rend(x) =
                      IF /\ NBase(t) >= 2
                         /\ (b = 0
                                \/ Rend(ClusterAt(root[x].word, b)) # "final")
                      THEN "final"
                      ELSE "initial"
    /\ CtrlTakesNoSlot

\* a letter made final by a "%" between two base letters, more letters following
C1_Witness ==
    \E x \in DOMAIN root :
        LET t == TextOf(x)
            p == root[x].at
        IN /\ PercentBefore(t, p)
           /\ PrevBase(t, p) # 0
           /\ Rank(t, p) < NBase(t)
           /\ Rend(x) = "final"

----------------------------------------------------------------------------
(* C2 *)

\* the brackets of the flattened word all come from its markup: neither its
\* own text nor its children's text or tail holds a bracket character
MarkupBracketsOnly(src) ==
    LET plain_text(t) == \A q \in 1..Len(t) : t[q] \notin ctrls
    IN /\ plain_text(src.text)
       /\ \A k \in 1..Len(src.kids) :
              plain_text(src.kids[k].text) /\ plain_text(src.kids[k].tail)

\* C2, as claimed: every archigrapheme of a word marked unclear at the word
\* level carries cert = medium, whatever children the word has.
C2_UnclearWordAllMedium ==
    \A x \in DOMAIN root :
        LET src == or_tree[SrcOf(root[x].word)]
        IN (src.type = "unclear" /\ MarkupBracketsOnly(src))
               => Cert(x) = "medium"

----------------------------------------------------------------------------
(* C3 *)

\* C3, as claimed: a word whose base letters all have table entries gets one
\* archigrapheme for each of its base letters.
C3_CountWhenInTable ==
    InEngine =>
        \A wi \in 1..w :
            LET t == mod_root[wi].text
            IN (/\ Scanned(wi) \/ pc = "error"
                /\ \A p \in BasePlaces(t) : t[p] \in basechrs)
                   => ArchCount(wi) = NBase(t)

\* C3, amended: a word whose scan ran to the end of its text without an error
\* got one archigrapheme for each of its base letters, one in each element.
C3_CountWhenScanned ==
    InEngine =>
        /\ \A wi \in 1..w :
               Scanned(wi) => ArchCount(wi) = NBase(mod_root[wi].text)
        /\ \A x \in DOMAIN root :
               Cardinality({k \in DOMAIN root[x].g :
                   root[x].g[k].type = "archigrapheme"}) = 1

\* a scanned word of two letters or more with marks and markers among them
C3_Witness ==
    /\ InEngine
    /\ \E wi \in 1..w :
           LET t == mod_root[wi].text
           IN /\ Scanned(wi)
              /\ NBase(t) >= 2
              /\ \E p \in 1..Len(t) : t[p] \in tashkil
              /\ \E p \in 1..Len(t) : t[p] \in ctrls
              /\ ArchCount(wi) = NBase(t)

----------------------------------------------------------------------------
(* C4 *)

\* C4: in a word without "%" and with two base letters or more, the first base
\* letter is initial, the last final, the others medial.
C4_PositionsWithoutPercent ==
    \A x \in DOMAIN root :
        LET t == TextOf(x)
            r == Rank(t, root[x].at)
        IN ((\A q \in 1..Len(t) : t[q] # "%") /\ NBase(t) >= 2)
               => Rend(x) = IF r = 1 THEN "initial"
                            ELSE IF r = NBase(t) THEN "final"
                            ELSE "medial"

\* the last letter of a word of three letters with marks or brackets, no "%"
C4_Witness ==
    \E x \in DOMAIN root :
        LET t == TextOf(x)
        IN /\ \A q \in 1..Len(t) : t[q] # "%"
           /\ NBase(t) >= 3
           /\ Len(t) > NBase(t)
           /\ Rank(t, root[x].at) = NBase(t)
           /\ Rend(x) = "final"
           /\ Rend(x - 1) = "medial"

----------------------------------------------------------------------------
(* C5 *)

\* C5: the base letter that follows a letter classified final in the same word
\* is classified initial, emitted or not.
C5_InitialAfterFinal ==
    /\ \A x \in DOMAIN root :
           (/\ x > 1
            /\ root[x - 1].word = root[x].word
            /\ Rend(x - 1) = "final") => Rend(x) = "initial"
    /\ (/\ InEngine /\ err \in {"Exception", "KeyError"}
        /\ root # <<>>
        /\ root[Len(root)].word = w
        /\ Rend(Len(root)) = "final") => pos = 0

\* a letter after a final one, with a "%" between the two
C5_Witness ==
    \E x \in DOMAIN root :
        /\ x > 1
        /\ root[x - 1].word = root[x].word
        /\ Rend(x - 1) = "final"
        /\ PercentBefore(TextOf(x), root[x].at)
        /\ Rend(x) = "initial"

----------------------------------------------------------------------------
(* C6 *)

\* C6: in a word not marked unclear at the word level, an archigrapheme
\* carries cert = medium exactly when its letter stands after a "[" with no
\* "]" between; brackets are not counted in max and get no element.
C6_MediumIffInsideBrackets ==
    /\ \A x \in DOMAIN root :
           or_tree[SrcOf(root[x].word)].type # "unclear"
               => (Cert(x) = "medium"
                       <=> InsideBrackets(TextOf(x), root[x].at))
    /\ \A x \in DOMAIN root : TextOf(x)[root[x].at] \notin {"[", "]"}
    /\ (InEngine /\ w > 0) => max = NBase(CurText) - 1

\* a letter after a closed bracket pair that holds a letter
C6_Witness ==
    \E x \in DOMAIN root :
        /\ or_tree[SrcOf(root[x].word)].type # "unclear"
        /\ x > 1
        /\ root[x - 1].word = root[x].word
        /\ Cert(x - 1) = "medium"
        /\ Cert(x) = ""

----------------------------------------------------------------------------
(* C7 *)

\* C7: the sole base letter of a word is classified initial.
C7_SoleLetterInitial ==
    \A x \in DOMAIN root : NBase(TextOf(x)) = 1 => Rend(x) = "initial"

\* a sole letter with a "%" before it
C7_Witness ==
    \E x \in DOMAIN root :
        /\ NBase(TextOf(x)) = 1
        /\ PercentBefore(TextOf(x), root[x].at)
        /\ Rend(x) = "initial"

----------------------------------------------------------------------------
(* C8 *)

\* the glyph the engine looks up for a letter classified rend
LookedUp(ch, rend) ==
    IF ch \in {"k", "K"} /\ rend # "final" THEN "k" ELSE ch

\* the table row an element was built from
RowOfCluster(x) ==
    LET id == root[x].g[1].ref[2]
    IN base_df[CHOOSE k \in DOMAIN base_df : base_df[k].id = id]

\* the descriptors lines 354-361 compute for a row
ComputedDescs(row) ==
    {DiaText(row.above, "above") : n \in {n \in {1} : row.above # 0}}
        \cup {DiaText(row.below, "below") : n \in {n \in {1} : row.below # 0}}

\* some base letter of some flattened word has no row of its own
SomeLetterWithoutEntry ==
    \E wi \in DOMAIN mod_root :
        \E p \in BasePlaces(mod_root[wi].text) :
            mod_root[wi].text[p] \notin basechrs

\* the file is written only at the end, after every word, without an error
WriteOnlyAtEnd ==
    out_file # <<>> =>
        /\ pc = "done" /\ err = ""
        /\ mode = "full_trans" =>
               \A wi \in DOMAIN mod_root :
                   ArchCount(wi) = NBase(mod_root[wi].text)
        /\ mode = "plain_trans" => w = Len(pwords)

\* C8, as claimed: in either mode a base letter without a table entry, or a
\* computed descriptor the diacritic table lacks, ends the transform in an
\* error with no file written; the write comes after every word.
C8_AnyMissingEndsInError ==
    /\ pc = "done" =>
           /\ ~SomeLetterWithoutEntry
           /\ \A x \in DOMAIN root :
                  ComputedDescs(RowOfCluster(x)) \subseteq DOMAIN ag_ids
    /\ WriteOnlyAtEnd

\* C8, amended: full_trans ends in an error, no file written, when the glyph
\* looked up for a base letter (the non-final kaf for a kaf not classified
\* final, the letter itself otherwise) has no row, or the descriptor looked up
\* for its row (the below one when dots-below is not 0, else the above one) is
\* not in the diacritic table; plain_trans does when a base letter has no row;
\* the write comes after every word.
C8_FailedLookupEndsInError ==
    /\ (pc = "done" /\ mode = "full_trans") =>
           \A x \in DOMAIN root :
               LET row == RowOfCluster(x)
               IN /\ LookedUp(TextOf(x)[root[x].at], Rend(x)) \in basechrs
                  /\ row.below # 0
                         => DiaText(row.below, "below") \in DOMAIN ag_ids
                  /\ (row.below = 0 /\ row.above # 0)
                         => DiaText(row.above, "above") \in DOMAIN ag_ids
    /\ (pc = "done" /\ mode = "plain_trans") =>
           \A k \in DOMAIN pwords :
               \A p \in BasePlaces(pwords[k]) : pwords[k][p] \in basechrs
    /\ pc = "error" => out_file = <<>>
    /\ WriteOnlyAtEnd

\* an unknown letter in the second word ends the transform with no file
C8_Witness ==
    /\ mode = "full_trans"
    /\ pc = "error" /\ err = "Exception"
    /\ w = 2
    /\ root # <<>>
    /\ out_file = <<>>

----------------------------------------------------------------------------
(* C9 *)

\* the tashkil marks that follow the letter at place p before the next letter
MarksAfter(t, p) ==
    {q \in (p + 1)..Len(t) : t[q] \in tashkil /\ PrevBase(t, q) = p}

\* C9, as claimed: in every word, a tashkil mark scanned before any base
\* letter of that word raises an error, and no mark goes to an element of an
\* earlier word.
C9_LeadingTashkilRaises ==
    /\ (InEngine /\ w > 0) =>
           \A p \in 1..(at - 1) :
               CurText[p] \in tashkil => PrevBase(CurText, p) # 0
    /\ \A x \in DOMAIN root :
           Cardinality({k \in DOMAIN root[x].g : root[x].g[k].type = "vowel"})
               <= Cardinality(MarksAfter(TextOf(x), root[x].at))

----------------------------------------------------------------------------
(* C10 *)

\* the target of the first of the rows read so far whose source is a
FirstTarget(a) ==
    LET S == {k \in 1..rd : csv_rows[k][1] = a}
    IN csv_rows[CHOOSE k \in S : \A r \in S : k <= r][2]

\* C10, as claimed: a source literal maps to the target of its first row,
\* whatever that target is.
C10_FirstRowWins ==
    pc \in {"csv", "returned"} =>
        \A a \in Sources :
            (\E k \in 1..rd : csv_rows[k][1] = a)
                => (a \in DOMAIN repl_dict /\ repl_dict[a] = FirstTarget(a))

----------------------------------------------------------------------------
(* C11 *)

\* the loop of lines 393-394 has been through every item
LoopDone == pc = "items" /\ ki = Len(Keys)

CharsOf(lit) == {Chars(lit)[k] : k \in 1..Len(Chars(lit))}

SourceChars == UNION {CharsOf(a) : a \in DOMAIN repl_dict}

NoTargetIsSource ==
    \A a \in DOMAIN repl_dict : repl_dict[a] \notin DOMAIN repl_dict

NoSourceCharInTarget ==
    \A a \in DOMAIN repl_dict : CharsOf(repl_dict[a]) \cap SourceChars = {}

\* C11, as claimed: with a table none of whose targets is itself a source,
\* the text one substitution pass produced is left unchanged by a second pass.
C11_FixedPointNoTargetIsSource ==
    (LoopDone /\ NoTargetIsSource) => SubstFrom(txt, 0) = txt

\* C11, amended: with a table whose sources are not empty, whose targets hold
\* no character of any source, and whose sources are all single characters or
\* whose targets are all non-empty, the text one substitution pass produced is
\* left unchanged by a second pass.
C11_FixedPointDisjointLiterals ==
    (/\ LoopDone
     /\ "" \notin DOMAIN repl_dict
     /\ NoSourceCharInTarget
     /\ \/ \A a \in DOMAIN repl_dict : Len(Chars(a)) = 1
        \/ \A a \in DOMAIN repl_dict : repl_dict[a] # "")
        => SubstFrom(txt, 0) = txt

\* a pass of two items, one of two characters, that changed the text
C11_Witness ==
    /\ LoopDone
     /\ "" \notin DOMAIN repl_dict
     /\ NoSourceCharInTarget
     /\ \A a \in DOMAIN repl_dict : repl_dict[a] # ""
     /\ Len(Keys) = 2
     /\ "xy" \in DOMAIN repl_dict
     /\ txt # elem_text
     /\ Len(txt) >= 2
     /\ SubstFrom(txt, 0) = txt

----------------------------------------------------------------------------
(* C12 *)

\* the scan of word w is about to read the word's first character
AtWordStart == InEngine /\ pc = "words" /\ w >= 1 /\ at = 1

\* C12: at the start of the scan of every word i = 0, j = 0 and reset, unclear
\* and modified are false, whatever the word before it left behind.
C12_WordStateFresh ==
    AtWordStart =>
        /\ i = 0 /\ j = 0
        /\ reset = FALSE /\ att_unclear = FALSE /\ att_mod = FALSE

\* the second word starts after a word with an unclosed "{", a "%" and a last
\* letter classified final
C12_Witness ==
    /\ AtWordStart
    /\ w = 2
    /\ \E q \in DOMAIN mod_root[1].text : mod_root[1].text[q] = "{"
    /\ \E q \in DOMAIN mod_root[1].text : mod_root[1].text[q] = "%"
    /\ root # <<>>
    /\ Rend(Len(root)) = "final"
    /\ i = 0 /\ j = 0 /\ reset = FALSE /\ att_mod = FALSE

----------------------------------------------------------------------------
(* C13 *)

\* the texts of ws with one space between each two neighbours
RECURSIVE JoinWords(_)
JoinWords(ws) ==
    IF ws = <<>> THEN <<>>
    ELSE IF Len(ws) = 1 THEN ws[1]
    ELSE ws[1] \o <<" ">> \o JoinWords(Tail(ws))

\* what the word loop of plain_trans makes of each flattened word by itself
Renderings == [k \in DOMAIN mod_root |-> PlainWordText(mod_root[k].text).text]

\* C13, as claimed: the text plain_trans writes for a document with at least
\* one non-empty word is the renderings of its words in source order, one
\* space between each two neighbours, no space before the first or after the
\* last.
C13_SingleSpacesBetweenWords ==
    (mode = "plain_trans" /\ out_file # <<>> /\ mod_root # <<>>)
        => out_file[2] = JoinWords(Renderings)

----------------------------------------------------------------------------
(* C14 *)

\* the pos the word loop of plain_trans hands to _get_basechr for the base
\* letter at place p of the word t (lines 87-101)
PlainPosAt(t, p) ==
    LET mx == Len(strip_specs(t, specs))
        F[k \in 0..p] ==
            IF k = 0 THEN 0
            ELSE IF t[k] \in specs THEN F[k - 1]
            ELSE PlainPos(F[k - 1], Rank(t, k), mx)
    IN F[p]

\* C14, as claimed: in a flattened word without "%" the plaintext path takes
\* the final context for a base letter exactly when the engine classifies
\* that letter final, and both paths take the same table row for it.
C14_PlainFinalIffEngineFinal ==
    \A x \in DOMAIN root :
        LET t == TextOf(x)
            p == root[x].at
        IN (\A q \in 1..Len(t) : t[q] # "%") =>
               /\ Rend(x) = "final" <=> PlainPosAt(t, p) = 2
               /\ t[p] \in basechrs =>
                      RowOfCluster(x) = SelectRow(t[p], PlainPosAt(t, p))

----------------------------------------------------------------------------
(* C15 *)

\* the step of _replace_subs on a <br> child
BrStep == pc = "kids" /\ ek' = ek + 1 /\ mod_tree[fw + 1].kids[ek + 1].tag = "br"

\* the place of the last character of s that is not a special character, 1
\* when there is none
LastPlain(s) ==
    LET S == {q \in 1..Len(s) : s[q] \notin specs}
    IN IF S = {} THEN 1 ELSE CHOOSE q \in S : \A r \in S : r <= q

\* C15, as claimed: a <br> child puts one "%" right in front of the trailing
\* run of special characters of the accumulated text, the base letter before
\* the run staying in front of the "%", and changes nothing else.
C15_PercentBeforeTrailingRun ==
    [][BrStep =>
          LET run == TrailingSpecs(ntext)
          IN ntext' = SubSeq(ntext, 1, Len(ntext) - run) \o <<"%">>
                          \o SubSeq(ntext, Len(ntext) - run + 1, Len(ntext))
      ]_vars

\* C15, amended: a <br> child puts one "%" right in front of the last
\* character of the accumulated text that is not a special character (at the
\* very front when there is none), this character and the run of special
\* characters after it following the "%"; the other characters keep their
\* order, whitespace left next to the "%" or at the end is stripped, and the
\* child adds nothing else.
C15_PercentBeforeLastLetter ==
    [][BrStep =>
          LET q == LastPlain(ntext)
          IN ntext' = Strip(SubSeq(ntext, 1, q - 1)) \o <<"%">>
                          \o Strip(SubSeq(ntext, q, Len(ntext)))
      ]_vars

\* a <br> child met a text that ends in a base letter and a run of special
\* characters, with another base letter before
C15_Witness ==
    /\ pc = "kids"
    /\ ek >= 1
    /\ mod_tree[fw + 1].kids[ek].tag = "br"
    /\ \E q \in 2..(Len(ntext) - 2) :
           /\ ntext[q] = "%"
           /\ ntext[q - 1] = "B"
           /\ ntext[q + 1] = "B"
           /\ ntext[q + 2] \in specs
           /\ \A r \in (q + 2)..Len(ntext) : ntext[r] \in specs

----------------------------------------------------------------------------
(* C16 *)

\* the table entry the claim names for the glyph ch classified rend: the only
\* entry of ch, or the one of the context of rend when ch has two
EntryFor(ch, rend) ==
    LET R == {k \in DOMAIN base_df : base_df[k].Character = ch}
        ctx == IF rend = "final" THEN "finis" ELSE "inmed"
    IN IF Cardinality(R) = 1
       THEN base_df[CHOOSE k \in R : TRUE]
       ELSE base_df[CHOOSE k \in R : base_df[k].pos = ctx]

\* the archigrapheme of element x has the id and the text of entry e
UsesEntry(x, e) ==
    /\ root[x].g[1].type = "archigrapheme"
    /\ root[x].g[1].ref = Ref(e.id)
    /\ root[x].g[1].text = e.ag

\* C16, as claimed: the entry used for a base letter is the only entry of that
\* letter, or of its two entries the one of the context of the position
\* assigned; the element has the id and the text of that entry.
C16_EntryOfTheLetter ==
    \A x \in DOMAIN root :
        LET ch == TextOf(x)[root[x].at]
        IN ch \in basechrs => UsesEntry(x, EntryFor(ch, Rend(x)))

\* C16, amended: the entry used for a base letter is the only entry, or of two
\* entries the one of the context of the position assigned, of the glyph that
\* is looked up: the non-final kaf for a kaf not classified final, the letter
\* itself otherwise; the element has the id and the text of that entry.
C16_EntryOfTheGlyphLookedUp ==
    \A x \in DOMAIN root :
        LET ch == LookedUp(TextOf(x)[root[x].at], Rend(x))
        IN /\ ch \in basechrs
           /\ UsesEntry(x, EntryFor(ch, Rend(x)))

\* a letter with two entries, classified final after being classified medial
C16_Witness ==
    \E x \in DOMAIN root :
        /\ x > 1
        /\ root[x - 1].word = root[x].word
        /\ TextOf(x)[root[x].at] = "M"
        /\ TextOf(x)[root[x - 1].at] = "M"
        /\ Rend(x - 1) = "medial" /\ root[x - 1].g[1].ref = Ref("m1")
        /\ Rend(x) = "final" /\ root[x].g[1].ref = Ref("m2")

----------------------------------------------------------------------------
(* C17 *)

\* C17: a kaf classified initial or medial is looked up as the non-final kaf,
\* whichever of the two glyphs stands in the word, and a kaf classified final
\* as the glyph that stands in the word; a lookup that finds no row ends the
\* scan.
C17_KafLookedUpByPosition ==
    /\ \A x \in DOMAIN root :
           LET ch == TextOf(x)[root[x].at]
           IN ch \in kafs =>
                  IF Rend(x) = "final"
                  THEN ch \in basechrs /\ UsesEntry(x, EntryFor(ch, "final"))
                  ELSE "k" \in basechrs /\ UsesEntry(x, EntryFor("k", Rend(x)))
    /\ (/\ InEngine /\ err = "Exception"
        /\ Letter \in kafs) =>
           (IF pos = 2 THEN Letter ELSE "k") \notin basechrs

\* the same glyph twice in a word, looked up as the non-final kaf first and as
\* itself at the end
C17_Witness ==
    \E x \in DOMAIN root :
        /\ x > 1
        /\ root[x - 1].word = root[x].word
        /\ TextOf(x)[root[x - 1].at] = "K"
        /\ TextOf(x)[root[x].at] = "K"
        /\ Rend(x - 1) = "initial" /\ root[x - 1].g[1].ref = Ref("k1")
        /\ Rend(x) = "final" /\ root[x].g[1].ref = Ref("k2")

----------------------------------------------------------------------------
(* C18 *)

\* the diacritic graphemes of element x
Diacritics(x) == {k \in DOMAIN root[x].g : root[x].g[k].type = "diacritic"}

\* grapheme k of element x has the reference and the sign of the descriptor
\* of n dots on the given side
IsDescriptor(x, k, n, side) ==
    /\ root[x].g[k].ref = <<"#", <<num_str[n], IF n > 1 THEN "dots" ELSE "dot",
                                  side>>>>
    /\ root[x].g[k].text = ag_ids[<<num_str[n], IF n > 1 THEN "dots" ELSE "dot",
                                    side>>]

\* C18: an element holds no diacritic grapheme when its entry has no dots
\* above and none below, and exactly one otherwise: the below descriptor when
\* dots-below is not 0, both counts being non-zero or not, the above
\* descriptor when only dots-above is not 0.
C18_OneDiacriticBelowWins ==
    \A x \in DOMAIN root :
        LET row == RowOfCluster(x)
        IN IF row.above = 0 /\ row.below = 0
           THEN Diacritics(x) = {}
           ELSE /\ Cardinality(Diacritics(x)) = 1
                /\ \A k \in Diacritics(x) :
                       IF row.below # 0
                       THEN IsDescriptor(x, k, row.below, "below")
                       ELSE IsDescriptor(x, k, row.above, "above")

\* an element of an entry with dots above and below, holding a mark too
C18_Witness ==
    \E x \in DOMAIN root :
        LET row == RowOfCluster(x)
        IN /\ row.above # 0 /\ row.below # 0
           /\ Cardinality(Diacritics(x)) = 1
           /\ \E k \in DOMAIN root[x].g : root[x].g[k].type = "vowel"
           /\ \A k \in Diacritics(x) : IsDescriptor(x, k, row.below, "below")

----------------------------------------------------------------------------
(* C19 *)

InPlain == mode = "plain_trans" /\ pc \in {"plain", "done", "error"}

\* the characters of a word that the plaintext keeps: no control marker, and
\* the marks only with the flag
Kept(word) ==
    SelectSeq(word, LAMBDA ch : ch \notin ctrls
                                   /\ (ch \in tashkil => vowels_bool))

\* out is word written character by character: a mark as itself, a base
\* letter as the archigrapheme text of one of its entries
WrittenAs(word, out) ==
    /\ Len(out) = Len(Kept(word))
    /\ \A q \in 1..Len(out) :
           IF Kept(word)[q] \in tashkil
           THEN out[q] = Kept(word)[q]
           ELSE \E r \in DOMAIN base_df :
                    /\ base_df[r].Character = Kept(word)[q]
                    /\ out[q] = base_df[r].ag

\* C19: the plaintext holds no control marker; what is written for a word is
\* its marks in place, when the flag is true, and none of them when it is
\* false, and for each base letter the archigrapheme text of one of its
\* entries, in source order.
C19_PlaintextFilter ==
    InPlain =>
        /\ \A q \in 1..Len(plaintext) : plaintext[q] \notin ctrls
        /\ \A k \in 1..w : WrittenAs(pwords[k], Split(plaintext)[k])

\* plaintext written without the marks from a word with a mark, a bracket and
\* two letters
C19_Witness ==
    /\ InPlain /\ pc = "done"
    /\ vowels_bool = FALSE
    /\ w >= 1
    /\ \E q \in 1..Len(pwords[1]) : pwords[1][q] \in tashkil
    /\ \E q \in 1..Len(pwords[1]) : pwords[1][q] \in ctrls
    /\ Split(out_file[2])[1] = <<"Mmed", "Mfin">>

----------------------------------------------------------------------------
(* C20 *)

\* C20: the last base letter of a word of two base letters or more is never
\* classified medial; it is classified initial exactly when the base letter
\* before it was classified final, and final otherwise.
C20_LastLetterNeverMedial ==
    \A x \in DOMAIN root :
        LET t == TextOf(x)
            p == root[x].at
        IN (NBase(t) >= 2 /\ Rank(t, p) = NBase(t)) =>
               Rend(x) =
                   IF Rend(ClusterAt(root[x].word, PrevBase(t, p))) = "final"
                   THEN "initial"
                   ELSE "final"

\* a last letter classified final two letters after a letter that a "%" made
\* final
C20_Witness ==
    \E x \in DOMAIN root :
        LET t == TextOf(x)
            p == root[x].at
        IN /\ NBase(t) >= 4 /\ Rank(t, p) = NBase(t)
           /\ \E q \in 1..Len(t) : t[q] = "%"
           /\ Rend(x) = "final"
           /\ Rend(x - 1) = "initial"
           /\ Rend(x - 2) = "final"

=============================================================================
